---- MODULE Spec2Model ----
(***************************************************************************)
(* Model of the two model wrappers of TOQ-Nets, STGCN_BIN_SA and STGCN_RL  *)
(* (src/toqnets/models/STGCN_BIN_SA.py, src/toqnets/models/STGCN_RL.py):   *)
(* configuration completion, construction, the forward pass and set_grad.  *)
(*                                                                         *)
(* Python values are encoded as follows.  None is the empty tuple and a    *)
(* value x that may be None is the 1-tuple <<x>>.  A dict is a function    *)
(* from key strings to values.  A tensor is a record [dtype, shape, val]   *)
(* whose val maps every 0-based index tuple of the shape to an integer.    *)
(***************************************************************************)
EXTENDS Integers, Sequences, FiniteSets, TLC

VARIABLES
    default_config,   \* the class attribute default_config of each class
    model,            \* the model object the program holds (NoModel before construction)
    last_option,      \* the last recognized set_grad option applied to model (None: none yet)
    call              \* the last call: its arguments and what it left behind

vars == <<default_config, model, last_option, call>>

\* ------------------------------------------------------------------ bounds
MaxBatch == 2
MaxLen == 2
MaxAgents == 4
MaxStateDim == 3

\* ------------------------------------------------------------ Python values
None == <<>>

Some(x) == <<x>>

Keys(d) == DOMAIN d

\* dict.update / item assignment: d2's items written over d1's
DictSet(d1, d2) ==
    [k \in Keys(d1) \cup Keys(d2) |-> IF k \in Keys(d2) THEN d2[k] ELSE d1[k]]

\* copy.deepcopy: a value equal to the original (the new identity is carried
\* by the heap slot the copy is stored in)
deepcopy(v) == v

\* ------------------------------------------------------------------ configs
Classes == {"STGCN_BIN_SA", "STGCN_RL"}

BIN_SA_default_config ==
    [name |-> "STGCN_BIN_SA", n_agents |-> 13, state_dim |-> 3,
     image_dim |-> None, type_dim |-> 4, n_actions |-> 9, h_dim |-> 128,
     n_features |-> 256, kernel_size |-> <<7, 7>>,
     edge_importance_weighting |-> TRUE, noise |-> None,
     input_feature |-> Some("physical"), cmp_dim |-> 5, max_gcn |-> FALSE]

RL_default_config ==
    [name |-> "STGCN_RL", n_agents |-> 45, state_dim |-> <<14, 14>>,
     object_name_dim |-> 194, n_actions |-> 2, h_dim |-> 128,
     n_features |-> 256, kernel_size |-> <<7, 7>>,
     edge_importance_weighting |-> FALSE]

ClassDefaults ==
    [c \in Classes |->
        IF c = "STGCN_BIN_SA" THEN BIN_SA_default_config ELSE RL_default_config]

\* toqnets.config_update.update_config: writes the update's entries into config
update_config(config, config_update) == DictSet(config, config_update)

\* The object the local name `config` is bound to on line 43 / 34: a fresh
\* deep copy when no default_config is passed, else the caller's dict itself.
ConfigRefAliased(default_arg) == IF default_arg = None THEN "cls" ELSE "arg"

ConfigRef(default_arg) == IF default_arg = None THEN "new" ELSE "arg"

\* complete_config (identical in both classes).  heap holds the three dict
\* objects in play: "cls" the class attribute, "arg" the caller's
\* default_config (when given), "new" the deep copy.  The result names the
\* returned dict and the class attribute after the call.
complete_config(cls_default, is_ConfigUpdate, config_update, default_arg) ==
    IF ~is_ConfigUpdate
    THEN [raised |-> "AssertionError", ret |-> None, cls_default |-> cls_default]
    ELSE
    LET ref == ConfigRef(default_arg)
        h0 == [o \in {"cls", "arg", "new"} |->
                 CASE o = "cls" -> cls_default
                   [] o = "arg" -> IF default_arg = None THEN <<>> ELSE default_arg[1]
                   [] o = "new" -> deepcopy(cls_default)]
        h1 == [h0 EXCEPT ![ref] = update_config(h0[ref], config_update)]
        missing == {k \in Keys(h1["cls"]) : k \notin Keys(h1[ref])}
        h2 == [h1 EXCEPT ![ref] =
                 DictSet(h1[ref], [k \in missing |-> deepcopy(h1["cls"][k])])]
    IN  [raised |-> "", ret |-> Some(h2[ref]), cls_default |-> h2["cls"]]

\* ------------------------------------------------- config updates (inputs)
NoiseStd == 2

BIN_SA_Updates ==
    { DictSet(DictSet(a, n), f) :
        a \in {<<>>, [n_agents |-> 2], [n_agents |-> MaxAgents, state_dim |-> 2]},
        n \in {<<>>, [noise |-> None], [noise |-> Some(NoiseStd)]},
        f \in {<<>>, [input_feature |-> None], [input_feature |-> Some("physical")],
               [input_feature |-> Some("nlm")], [comment |-> "run1"]} }

RL_Updates ==
    { DictSet(DictSet(a, s), o) :
        a \in {<<>>, [n_agents |-> 2]},
        s \in {<<>>, [state_dim |-> <<1, 2>>]},
        o \in {<<>>, [object_name_dim |-> 0], [object_name_dim |-> 1],
               [comment |-> "run1"]} }

Updates(cls) == IF cls = "STGCN_BIN_SA" THEN BIN_SA_Updates ELSE RL_Updates

\* dicts a caller may pass as an explicit default_config
ExplicitDefaults(cls) == {<<>>, [name |-> cls], [name |-> cls, n_agents |-> 2]}

\* ------------------------------------------------------------------ tensors
\* all 0-based index tuples of a shape (torch.Size)
Idx(shape) ==
    LET R(k) == 0..(shape[k] - 1)
    IN  CASE Len(shape) = 0 -> {<<>>}
          [] Len(shape) = 1 -> {<<i>> : i \in R(1)}
          [] Len(shape) = 2 -> R(1) \X R(2)
          [] Len(shape) = 3 -> R(1) \X R(2) \X R(3)
          [] Len(shape) = 4 -> R(1) \X R(2) \X R(3) \X R(4)

MkTensor(dtype, shape, val) == [dtype |-> dtype, shape |-> shape, val |-> val]

\* tensor.size(-1)
LastDim(t) == t.shape[Len(t.shape)]

\* tensor.type(torch.float): a new tensor holding the same numbers as floats
ToFloat(t) == [t EXCEPT !.dtype = "float32"]

\* torch.zeros(*shape)
zeros(shape) == LET Z(i) == 0 IN MkTensor("float32", shape,
                 [i \in Idx(shape) |-> Z(i)])

\* torch.zeros_like(t)
zeros_like(t) == LET Z(i) == 0 IN MkTensor(t.dtype, t.shape,
                 [i \in Idx(t.shape) |-> Z(i)])

\* tensor.max()
RECURSIVE SetMax(_)
SetMax(S) ==
    LET x == CHOOSE x \in S : TRUE
    IN  IF S = {x} THEN x
        ELSE LET m == SetMax(S \ {x}) IN IF x > m THEN x ELSE m

TMax(t) == SetMax({t.val[i] : i \in Idx(t.shape)})

\* torch.cat([a, b], dim=3) of two rank-4 tensors
cat3(a, b) ==
    LET da == a.shape[4]
        F(i) == IF i[4] < da THEN a.val[i]
                ELSE b.val[<<i[1], i[2], i[3], i[4] - da>>]
    IN  MkTensor(a.dtype, <<a.shape[1], a.shape[2], a.shape[3], da + b.shape[4]>>,
                 [i \in Idx(<<a.shape[1], a.shape[2], a.shape[3], da + b.shape[4]>>) |-> F(i)])

\* torch.cat([a, b], dim=2) of two rank-4 tensors
cat2(a, b) ==
    LET na == a.shape[3]
        F(i) == IF i[3] < na THEN a.val[i]
                ELSE b.val[<<i[1], i[2], i[3] - na, i[4]>>]
    IN  MkTensor(a.dtype, <<a.shape[1], a.shape[2], na + b.shape[3], a.shape[4]>>,
                 [i \in Idx(<<a.shape[1], a.shape[2], na + b.shape[3], a.shape[4]>>) |-> F(i)])

\* types.unsqueeze(1).repeat(1, length, 1, 1): [B, N, T] -> [B, length, N, T]
unsqueeze1_repeat(t, length) ==
    LET F(i) == t.val[<<i[1], i[3], i[4]>>]
    IN  MkTensor(t.dtype, <<t.shape[1], length, t.shape[2], t.shape[3]>>,
                 [i \in Idx(<<t.shape[1], length, t.shape[2], t.shape[3]>>) |-> F(i)])

\* nullary_states.view(batch, length, 1, d): [B, L, D] -> [B, L, 1, D]
view_node(t) ==
    LET F(i) == t.val[<<i[1], i[2], i[4]>>]
    IN  MkTensor(t.dtype, <<t.shape[1], t.shape[2], 1, t.shape[3]>>,
                 [i \in Idx(<<t.shape[1], t.shape[2], 1, t.shape[3]>>) |-> F(i)])

\* torch.normal(mean, std): mean + std * (a standard normal sample); the
\* sample is the tensor eps, one of a small family of sign patterns
normal(mean, std, eps) ==
    LET F(i) == mean.val[i] + std.val[i] * eps.val[i]
    IN  MkTensor(mean.dtype, mean.shape,
                 [i \in Idx(mean.shape) |-> F(i)])

\* the abstract result of a learned module: only its shape is determined
Abstract(shape) == [dtype |-> "float32", shape |-> shape]

\* x.mean(dim=(2, 3)) of a rank-4 result
mean23(x) == Abstract(<<x.shape[1], x.shape[2]>>)

NoModel == [cls |-> "none"]

\* ------------------------------------------------- external collaborators
\* toqnets.nn.input_transform.InputTransformPredefined(type_dim, cmp_dim,
\* time_reduction='none'): out_dims lists its nullary, unary and binary
\* feature counts; estimated records a call of estimate_parameters
InputTransformPredefined(type_dim, cmp_dim) ==
    [out_dims |-> <<0, type_dim, cmp_dim>>, estimated |-> FALSE]

\* input_transform(states, add_unary_tensor=types, beta=beta): the nullary,
\* unary and binary feature tensors
input_transform_call(it, states, types, beta) ==
    <<Abstract(<<states.shape[1], states.shape[2], it.out_dims[1]>>),
      Abstract(<<states.shape[1], states.shape[2], states.shape[3], it.out_dims[2]>>),
      Abstract(<<states.shape[1], states.shape[2], states.shape[3], states.shape[3],
                 it.out_dims[3]>>)>>

\* number of st_gcn layers of the backbone
NLayers == 2

\* toqnets.nn.stgcn.STGCN(n_nodes, in_channels, n_features, ...)
STGCN(n_nodes, in_channels, n_features, binary_input_dim, binary_output_dim) ==
    [n_nodes |-> n_nodes, in_channels |-> in_channels, n_features |-> n_features,
     binary_input_dim |-> binary_input_dim, binary_output_dim |-> binary_output_dim]

\* self.stgcn(inputs[, binary_input]): features [batch, n_features, length, nodes]
stgcn_call(stgcn, inputs) ==
    Abstract(<<inputs.shape[1], stgcn.n_features, inputs.shape[2], inputs.shape[3]>>)

\* nn.Linear(in_features, out_features)
Linear(in_features, out_features) ==
    [in_features |-> in_features, out_features |-> out_features]

\* decoder(x), also through toqnets.nn.utils.apply_last_dim: the last
\* dimension is mapped from in_features to out_features
linear_call(lin, x) ==
    Abstract(SubSeq(x.shape, 1, Len(x.shape) - 1) \o <<lin.out_features>>)

\* toqnets.nn.utils.move_player_first(trajectories, playerid): per sample the
\* agent playerid[b] (a Python index, so negative ids count from the end) is
\* put at position 0 and the other agents follow in their order
move_player_first(trajectories, playerid) ==
    LET n == trajectories.shape[3]
        p(b) == playerid.val[<<b>>] % n
        src(b, k) == IF k = 0 THEN p(b) ELSE IF k <= p(b) THEN k - 1 ELSE k
        F(i) == trajectories.val[<<i[1], i[2], src(i[1], i[3]), i[4]>>]
    IN  MkTensor(trajectories.dtype, trajectories.shape,
                 [i \in Idx(trajectories.shape) |-> F(i)])

\* parameter names of the submodules (nn.Module.parameters())
LayerParameters(k) ==
    {<<"stgcn", "st_gcn_layers", k, "gcn.weight">>,
     <<"stgcn", "st_gcn_layers", k, "tcn.weight">>}

StgcnParameters ==
    {<<"stgcn", "data_bn", 0, "weight">>, <<"stgcn", "edge_importance", 0, "weight">>}
      \cup UNION {LayerParameters(k) : k \in 0..(NLayers - 1)}

DecoderParameters ==
    {<<"decoder", "", 0, "weight">>, <<"decoder", "", 0, "bias">>}

InputTransformParameters == {<<"input_transform", "", 0, "thresholds">>}

\* self.parameters()
Parameters(self) ==
    (IF "input_transform" \in self.attrs THEN InputTransformParameters ELSE {})
      \cup StgcnParameters \cup DecoderParameters

\* ------------------------------------------------- STGCN_BIN_SA.__init__
\* the if / elif / else on input_feature
InputFeatureBranchLenient(input_feature) ==
    IF input_feature = Some("physical") THEN "physical" ELSE "none"

InputFeatureBranch(input_feature) ==
    IF input_feature = Some("physical") THEN "physical"
    ELSE IF input_feature = None THEN "none"
    ELSE "raise"

\* raised: the exception leaving the constructor ("" for none); attrs: the
\* attributes assigned to self in order; self: the object the caller gets
BIN_SA_init(config) ==
    LET n_agents == config.n_agents
        state_dim == config.state_dim
        type_dim == config.type_dim
        branch == InputFeatureBranch(config.input_feature)
        input_transform == InputTransformPredefined(type_dim, config.cmp_dim)
        binary_input_dim == IF branch = "physical" THEN input_transform.out_dims[3] ELSE 0
        binary_output_dim == binary_input_dim
        attrs0 == <<"config">> \o (IF branch = "physical" THEN <<"input_transform">> ELSE <<>>)
    IN  IF branch = "raise"
        THEN [raised |-> "ValueError", attrs |-> attrs0, self |-> NoModel]
        ELSE LET attrs == attrs0 \o <<"state_encoder", "stgcn", "decoder">>
                 obj == [cls |-> "STGCN_BIN_SA", config |-> config,
                         attrs |-> {attrs[i] : i \in 1..Len(attrs)},
                         input_transform |->
                            IF branch = "physical" THEN Some(input_transform) ELSE None,
                         stgcn |-> STGCN(n_agents, state_dim + type_dim, config.n_features,
                                         binary_input_dim, binary_output_dim),
                         decoder |-> Linear(config.n_features, config.n_actions)]
             IN  [raised |-> "", attrs |-> attrs,
                  self |-> obj @@
                           [requires_grad |-> [q \in Parameters(obj) |-> TRUE],
                            weights |-> [q \in Parameters(obj) |-> "default"]]]

\* ------------------------------------------------- STGCN_RL.__init__
RL_init(config) ==
    LET state_dim == config.state_dim
        obj == [cls |-> "STGCN_RL", config |-> config,
                attrs |-> {"config", "stgcn", "decoder"},
                stgcn |-> STGCN(config.n_agents + 1,
                                state_dim[1] + state_dim[2] + config.object_name_dim,
                                config.n_features, 0, 0),
                decoder |-> Linear(config.n_features, config.n_actions)]
    IN  [raised |-> "", attrs |-> <<"config", "stgcn", "decoder">>,
         self |-> obj @@ [requires_grad |-> [q \in Parameters(obj) |-> TRUE],
                          weights |-> [q \in Parameters(obj) |-> "default"]]]

\* ------------------------------------------------- STGCN_BIN_SA.forward
\* what a forward call leaves behind: the exception raised ("" for none), the
\* value returned, the model and the caller's data after the call, and the
\* locals the later steps read (None where the call did not get that far)
Outcome(raised, ret, self, d, loc) ==
    [raised |-> raised, ret |-> ret, self |-> self, data |-> d, loc |-> loc]

NoLocals ==
    [trajectories |-> None, states |-> None, types |-> None, noise_std |-> None,
     reordered |-> None, stgcn_args |-> <<>>]

\* the three assertions on the input shapes
BIN_SA_ShapesOk(config, trajectories, actions) ==
    /\ trajectories.shape[3] = config.n_agents
    /\ trajectories.shape[4] = config.state_dim
    /\ actions.shape = <<trajectories.shape[1]>>

\* noise_std = zeros_like(trajectories); noise_std[:, :, :, :2] = noise
NoiseStdAllChannels(trajectories, noise) ==
    LET F(i) == noise IN MkTensor(trajectories.dtype, trajectories.shape,
                 [i \in Idx(trajectories.shape) |-> F(i)])

NoiseStdTensor(trajectories, noise) ==
    LET z == zeros_like(trajectories)
        F(i) == IF i[4] < 2 THEN noise ELSE z.val[i]
    IN  MkTensor(z.dtype, z.shape,
                 [i \in Idx(z.shape) |-> F(i)])

\* playerid is not None and playerid.max() > -0.5 (playerid holds integer
\* agent indices, so the comparison is made on doubled integers)
Reorder(playerid) == playerid /= None /\ 2 * TMax(playerid[1]) > -1

\* tp = (0 if k == 0 else 1) if k <= 1 else (2 if k <= n_players else 3)
PlayerTypeStrict(k, n_players) ==
    IF k <= 1 THEN (IF k = 0 THEN 0 ELSE 1) ELSE (IF k < n_players THEN 2 ELSE 3)

PlayerType(k, n_players) ==
    IF k <= 1 THEN (IF k = 0 THEN 0 ELSE 1) ELSE (IF k <= n_players THEN 2 ELSE 3)

\* types = zeros(batch, n_agents, 4); for k in range(n_agents): types[:, k, tp] = 1
PositionalTypes(states, n_agents) ==
    LET n_players == n_agents \div 2
        F(i) == IF i[2] < n_agents /\ i[3] = PlayerType(i[2], n_players) THEN 1 ELSE 0
    IN  MkTensor("float32", <<states.shape[1], states.shape[3], 4>>,
                 [i \in Idx(<<states.shape[1], states.shape[3], 4>>) |-> F(i)])

\* 'estimate_parameters' in hp and hp['estimate_parameters']
EstimateRequestedKeyOnly(hp) == "estimate_parameters" \in Keys(hp)

EstimateRequested(hp) ==
    "estimate_parameters" \in Keys(hp) /\ hp.estimate_parameters

\* the binding of the local binary_input after the if / elif / else on
\* config['input_feature']: a value, no binding at all, or ValueError
BinaryInputBinding(self, states, types, beta) ==
    IF self.config.input_feature = Some("physical")
    THEN [raised |-> "", bound |-> TRUE,
          value |-> Some(input_transform_call(self.input_transform[1], states, types, beta)[3])]
    ELSE IF self.config.input_feature = None
    THEN [raised |-> "", bound |-> FALSE, value |-> None]
    ELSE [raised |-> "ValueError", bound |-> FALSE, value |-> None]

BIN_SA_forward(self, d, hp, eps) ==
    LET types0 == ToFloat(d.types)
        trajectories0 == d.trajectories
        playerid == IF "playerid" \in Keys(d) THEN Some(d.playerid) ELSE None
        actions == d.actions
        batch == trajectories0.shape[1]
        length == trajectories0.shape[2]
        n_agents == trajectories0.shape[3]
    IN
    IF ~BIN_SA_ShapesOk(self.config, trajectories0, actions)
    THEN Outcome("AssertionError", None, self, d, NoLocals)
    ELSE IF "beta" \notin Keys(hp)
    THEN Outcome("KeyError", None, self, d, NoLocals)
    ELSE
    LET beta == hp.beta
        noise == self.config.noise
        noise_std == IF noise /= None
                     THEN Some(NoiseStdTensor(trajectories0, noise[1])) ELSE None
        trajectories == IF noise /= None
                        THEN normal(trajectories0, noise_std[1], eps)
                        ELSE trajectories0
        reorder == Reorder(playerid)
        states == IF reorder THEN move_player_first(trajectories, playerid[1])
                  ELSE trajectories
        types == IF reorder THEN PositionalTypes(states, n_agents) ELSE types0
        loc == [trajectories |-> Some(trajectories), states |-> Some(states),
                types |-> Some(types), noise_std |-> noise_std,
                reordered |-> Some(reorder), stgcn_args |-> <<>>]
    IN
    IF EstimateRequested(hp)
    THEN IF "input_transform" \in self.attrs
         THEN Outcome("", None,
                      [self EXCEPT !.input_transform =
                           Some([self.input_transform[1] EXCEPT !.estimated = TRUE])],
                      d, loc)
         ELSE Outcome("AttributeError", None, self, d, loc)
    ELSE
    LET bin == BinaryInputBinding(self, states, types, beta)
        inputs == cat3(states, unsqueeze1_repeat(types, length))
    IN
    IF bin.raised /= "" THEN Outcome(bin.raised, None, self, d, loc)
    ELSE IF ~bin.bound THEN Outcome("UnboundLocalError", None, self, d, loc)
    ELSE
    LET x0 == stgcn_call(self.stgcn, inputs)
        n_features == x0.shape[2]
        x1 == mean23(x0)
        x2 == linear_call(self.decoder, x1)
        loc2 == [loc EXCEPT !.stgcn_args =
                    <<[inputs |-> inputs, binary_input |-> bin.value[1]]>>]
    IN
    IF x1.shape /= <<batch, n_features>>
    THEN Outcome("AssertionError", None, self, d, loc2)
    ELSE Outcome("", Some([output |-> x2, target |-> actions, loss |-> zeros(<<1>>)]),
                 self, d, loc2)

\* ------------------------------------------------- STGCN_RL.forward
\* the three assertions on the input shapes
RL_ShapesOk(config, nullary_states, unary_states) ==
    /\ unary_states.shape[3] = config.n_agents
    /\ nullary_states.shape =
         <<unary_states.shape[1], unary_states.shape[2], config.state_dim[1]>>
    /\ LastDim(unary_states) = config.state_dim[2] + config.object_name_dim

\* nullary_expand: the nullary state followed by zeros, as one node
NullaryExpandLeading(nullary_states, batch, length, pad) ==
    cat3(zeros(<<batch, length, 1, pad>>), view_node(nullary_states))

NullaryExpand(nullary_states, batch, length, pad) ==
    cat3(view_node(nullary_states), zeros(<<batch, length, 1, pad>>))

\* unary_expand: zeros followed by every agent's unary state
UnaryExpand(unary_states, batch, length, n_agents, pad) ==
    cat3(zeros(<<batch, length, n_agents, pad>>), unary_states)

RL_forward(self, d, hp) ==
    LET nullary_states == d.nullary_states
        unary_states == d.unary_states
        actions == d.actions
        lengths == d.lengths
        batch == unary_states.shape[1]
        length == unary_states.shape[2]
        n_agents == unary_states.shape[3]
        state_dim == self.config.state_dim
        object_name_dim == self.config.object_name_dim
    IN
    IF ~RL_ShapesOk(self.config, nullary_states, unary_states)
    THEN Outcome("AssertionError", None, self, d, NoLocals)
    ELSE
    LET n_features == self.config.n_features
        nullary_expand == NullaryExpand(nullary_states, batch, length,
                                        state_dim[2] + object_name_dim)
        unary_expand == UnaryExpand(unary_states, batch, length, n_agents, state_dim[1])
        inputs == cat2(nullary_expand, unary_expand)
        x0 == stgcn_call(self.stgcn, inputs)
        x1 == mean23(x0)
        x2 == linear_call(self.decoder, x1)
        loc == [NoLocals EXCEPT !.stgcn_args = <<[inputs |-> inputs, binary_input |-> None]>>]
    IN
    IF x1.shape /= <<batch, n_features>>
    THEN Outcome("AssertionError", None, self, d, loc)
    ELSE Outcome("", Some([output |-> x2, target |-> actions, loss |-> zeros(<<1>>)]),
                 self, d, loc)

\* ------------------------------------------------- set_grad, reset_parameters
GradOptions == {"all", "none", "gfootball_finetune"}

set_grad_lenient(self, option) ==
    [raised |-> "",
     self |-> IF option = "all"
              THEN [self EXCEPT !.requires_grad = [q \in Parameters(self) |-> TRUE]]
              ELSE IF option = "gfootball_finetune"
              THEN [self EXCEPT !.requires_grad =
                       [q \in Parameters(self) |-> q \in LayerParameters(0)]]
              ELSE [self EXCEPT !.requires_grad = [q \in Parameters(self) |-> FALSE]]]

set_grad_no_freeze(self, option) ==
    IF option = "all"
    THEN [raised |-> "",
          self |-> [self EXCEPT !.requires_grad = [q \in Parameters(self) |-> TRUE]]]
    ELSE IF option = "none"
    THEN [raised |-> "",
          self |-> [self EXCEPT !.requires_grad = [q \in Parameters(self) |-> FALSE]]]
    ELSE IF option = "gfootball_finetune"
    THEN [raised |-> "",
          self |-> [self EXCEPT !.requires_grad =
                      [q \in Parameters(self) |->
                          IF q \in LayerParameters(0) THEN TRUE ELSE self.requires_grad[q]]]]
    ELSE [raised |-> "ValueError", self |-> self]

set_grad(self, option) ==
    IF option = "all"
    THEN [raised |-> "",
          self |-> [self EXCEPT !.requires_grad = [q \in Parameters(self) |-> TRUE]]]
    ELSE IF option = "none"
    THEN [raised |-> "",
          self |-> [self EXCEPT !.requires_grad = [q \in Parameters(self) |-> FALSE]]]
    ELSE IF option = "gfootball_finetune"
    THEN LET frozen == [q \in Parameters(self) |-> FALSE]
         IN  [raised |-> "",
              self |-> [self EXCEPT !.requires_grad =
                          [q \in Parameters(self) |->
                              IF q \in LayerParameters(0) THEN TRUE ELSE frozen[q]]]]
    ELSE [raised |-> "ValueError", self |-> self]

\* toqnets.nn.utils.init_weights(module): re-initialises the module's weights
init_weights(weights, params) ==
    [q \in DOMAIN weights |-> IF q \in params THEN "init_weights" ELSE weights[q]]

reset_parameters(self) ==
    [self EXCEPT !.weights = init_weights(self.weights, LayerParameters(0))]

\* ------------------------------------------------------------------ inputs
RECURSIVE Code(_)
Code(i) == IF i = <<>> THEN 0 ELSE i[Len(i)] + 10 * Code(SubSeq(i, 1, Len(i) - 1))

\* a tensor whose entries are pairwise different (base + the index read as
\* a decimal number)
Fill(dtype, shape, base) == LET F(i) == base + Code(i) IN MkTensor(dtype, shape,
                 [i \in Idx(shape) |-> F(i)])

\* one-hot type labels [batch, n_agents, type_dim] as a data set supplies them
SuppliedTypes(batch, n_agents, type_dim) ==
    LET F(i) == IF i[3] = (i[1] + i[2] + 2) % type_dim THEN 1 ELSE 0
    IN  MkTensor("int64", <<batch, n_agents, type_dim>>,
                 [i \in Idx(<<batch, n_agents, type_dim>>) |-> F(i)])

ConstIds(batch, v) == LET F(i) == v IN MkTensor("int64", <<batch>>,
                 [i \in Idx(<<batch>>) |-> F(i)])

MixedIds(batch, v) == LET F(i) == IF i[1] = 0 THEN -1 ELSE v IN MkTensor("int64", <<batch>>,
                 [i \in Idx(<<batch>>) |-> F(i)])

\* the standard normal samples torch.normal may draw: sign patterns
EpsSeeds == {0, 1}

Eps(shape, seed) ==
    LET F(i) == ((seed + Code(i)) % 3) - 1 IN MkTensor("float32", shape,
                 [i \in Idx(shape) |-> F(i)])

Batches == {1, MaxBatch}

\* hyper parameter dicts: with and without 'beta', with and without
\* 'estimate_parameters'
HPs == {<<>>, [beta |-> 1], [beta |-> 1, estimate_parameters |-> FALSE],
        [beta |-> 1, estimate_parameters |-> TRUE]}

BIN_SA_Configs ==
    { complete_config(BIN_SA_default_config, TRUE,
                      [n_agents |-> a, state_dim |-> s, noise |-> n, input_feature |-> f],
                      None).ret[1] :
        a \in {1, 2, MaxAgents}, s \in {1, MaxStateDim},
        n \in {None, Some(NoiseStd)},
        f \in {None, Some("physical"), Some("nlm")} }

RL_Configs ==
    { complete_config(RL_default_config, TRUE,
                      [n_agents |-> a, state_dim |-> s, object_name_dim |-> o],
                      None).ret[1] :
        a \in {1, MaxAgents - 2}, s \in {<<1, 2>>, <<MaxStateDim - 1, 1>>}, o \in {0, 1} }

BIN_SA_Data(batch, length, n_agents, state_dim, type_dim, actions_shape) ==
    [trajectories |-> Fill("float32", <<batch, length, n_agents, state_dim>>, 1000),
     types |-> SuppliedTypes(batch, n_agents, type_dim),
     actions |-> Fill("int64", actions_shape, 1)]

\* the batches a caller passes: well shaped ones, with every kind of
\* playerid, and ones with a single shape defect
BIN_SA_Inputs(config) ==
    LET n == config.n_agents
        sd == config.state_dim
        td == config.type_dim
        good(b) == BIN_SA_Data(b, MaxLen, n, sd, td, <<b>>)
    IN  UNION { {good(b)}
                  \cup {good(b) @@ [playerid |-> p] :
                          p \in {ConstIds(b, -1), ConstIds(b, 0), ConstIds(b, n - 1),
                                 MixedIds(b, n - 1)}}
                  \cup {BIN_SA_Data(b, MaxLen, n + 1, sd, td, <<b>>),
                        BIN_SA_Data(b, MaxLen, n, sd + 1, td, <<b>>),
                        BIN_SA_Data(b, MaxLen, n, sd, td, <<b, 1>>),
                        BIN_SA_Data(b, MaxLen, n, sd, td, <<b + 1>>),
                        BIN_SA_Data(b, MaxLen, n + 1, sd, td, <<b>>)
                            @@ [playerid |-> ConstIds(b, 0)]}
                : b \in Batches }

RL_Data(batch, length, n_agents, d0, d1, nullary_batch, actions_shape) ==
    [nullary_states |-> Fill("float32", <<nullary_batch, length, d0>>, 5000),
     unary_states |-> Fill("float32", <<batch, length, n_agents, d1>>, 1000),
     actions |-> Fill("int64", actions_shape, 1),
     lengths |-> ConstIds(batch, length)]

RL_Inputs(config) ==
    LET n == config.n_agents
        d0 == config.state_dim[1]
        d1 == config.state_dim[2] + config.object_name_dim
    IN  UNION { {RL_Data(b, MaxLen, n, d0, d1, b, <<b>>),
                 RL_Data(b, MaxLen, n + 1, d0, d1, b, <<b>>),
                 RL_Data(b, MaxLen, n, d0 + 1, d1, b, <<b>>),
                 RL_Data(b, MaxLen, n, d0, d1 + 1, b, <<b>>),
                 RL_Data(b, MaxLen, n, d0, d1, b + 1, <<b>>),
                 RL_Data(b, MaxLen, n, d0, d1, b, <<b, 1>>),
                 RL_Data(b, MaxLen, n, d0, d1, b, <<b + 1>>)}
                : b \in Batches }

\* ------------------------------------------------------------------ actions
Init ==
    /\ default_config = ClassDefaults
    /\ model = NoModel
    /\ last_option = None
    /\ call = [op |-> "none"]

\* cls.complete_config(config_update) / cls.complete_config(config_update, d)
CompleteConfig ==
    \E cls \in Classes, isCU \in BOOLEAN :
    \E upd \in Updates(cls),
       dflt \in {None} \cup {Some(d) : d \in ExplicitDefaults(cls)} :
        LET r == complete_config(default_config[cls], isCU, upd, dflt)
        IN  /\ default_config' = [default_config EXCEPT ![cls] = r.cls_default]
            /\ call' = [op |-> "complete_config", cls |-> cls,
                        is_ConfigUpdate |-> isCU, config_update |-> upd,
                        default_arg |-> dflt, raised |-> r.raised, ret |-> r.ret]
            /\ UNCHANGED <<model, last_option>>

\* model = STGCN_BIN_SA(config): the name model is bound only when the
\* constructor returns
BIN_SA_Construct ==
    \E config \in BIN_SA_Configs :
        LET r == BIN_SA_init(config)
        IN  /\ model' = IF r.raised = "" THEN r.self ELSE model
            /\ last_option' = IF r.raised = "" THEN None ELSE last_option
            /\ call' = [op |-> "__init__", cls |-> "STGCN_BIN_SA", config |-> config,
                        raised |-> r.raised, attrs |-> r.attrs, self |-> r.self]
            /\ UNCHANGED default_config

\* model = STGCN_RL(config)
RL_Construct ==
    \E config \in RL_Configs :
        LET r == RL_init(config)
        IN  /\ model' = r.self
            /\ last_option' = None
            /\ call' = [op |-> "__init__", cls |-> "STGCN_RL", config |-> config,
                        raised |-> r.raised, attrs |-> r.attrs, self |-> r.self]
            /\ UNCHANGED default_config

\* model(data, hp) on an STGCN_BIN_SA
BIN_SA_Forward ==
    /\ model.cls = "STGCN_BIN_SA"
    /\ \E d \in BIN_SA_Inputs(model.config), hp \in HPs :
       \E seed \in (IF model.config.noise = None THEN {0} ELSE EpsSeeds) :
        LET r == BIN_SA_forward(model, d, hp, Eps(d.trajectories.shape, seed))
        IN  /\ model' = r.self
            /\ call' = [op |-> "forward", cls |-> "STGCN_BIN_SA", data_in |-> d,
                        hp |-> hp, raised |-> r.raised, ret |-> r.ret,
                        data |-> r.data, loc |-> r.loc]
            /\ UNCHANGED <<default_config, last_option>>

\* model(data, hp) on an STGCN_RL
RL_Forward ==
    /\ model.cls = "STGCN_RL"
    /\ \E d \in RL_Inputs(model.config), hp \in HPs :
        LET r == RL_forward(model, d, hp)
        IN  /\ model' = r.self
            /\ call' = [op |-> "forward", cls |-> "STGCN_RL", data_in |-> d,
                        hp |-> hp, raised |-> r.raised, ret |-> r.ret,
                        data |-> r.data, loc |-> r.loc]
            /\ UNCHANGED <<default_config, last_option>>

\* model.set_grad(option) on an STGCN_BIN_SA
SetGrad ==
    /\ model.cls = "STGCN_BIN_SA"
    /\ \E option \in GradOptions \cup {"finetune", ""} :
        LET r == set_grad(model, option)
        IN  /\ model' = r.self
            /\ last_option' = IF r.raised = "" THEN Some(option) ELSE last_option
            /\ call' = [op |-> "set_grad", cls |-> "STGCN_BIN_SA", option |-> option,
                        raised |-> r.raised]
            /\ UNCHANGED default_config

\* model.reset_parameters() on an STGCN_BIN_SA
ResetParameters ==
    /\ model.cls = "STGCN_BIN_SA"
    /\ model' = reset_parameters(model)
    /\ call' = [op |-> "reset_parameters", cls |-> "STGCN_BIN_SA", raised |-> ""]
    /\ UNCHANGED <<default_config, last_option>>

NextConfig == CompleteConfig

SpecConfig == Init /\ [][NextConfig]_vars

NextForward == BIN_SA_Construct \/ RL_Construct \/ BIN_SA_Forward \/ RL_Forward

SpecForward == Init /\ [][NextForward]_vars

NextGrad == BIN_SA_Construct \/ SetGrad \/ ResetParameters

SpecGrad == Init /\ [][NextGrad]_vars

\* ------------------------------------------------------------------ claims
\* C5: complete_config called (any number of times, on either class) with a
\* ConfigUpdate and no explicit default_config returns a config holding every
\* key of the class's default_config, each key with the update's value where
\* the update sets it and the default's value otherwise, and the class-level
\* default_config is never modified.
C5_CompleteConfigKeepsDefaults ==
    /\ default_config = ClassDefaults
    /\ (call.op = "complete_config" /\ call.is_ConfigUpdate /\ call.default_arg = None)
         => /\ call.raised = ""
            /\ LET ret == call.ret[1]
                   dflt == ClassDefaults[call.cls]
               IN  /\ Keys(dflt) \subseteq Keys(ret)
                   /\ Keys(ret) = Keys(dflt) \cup Keys(call.config_update)
                   /\ \A k \in Keys(ret) :
                        ret[k] = IF k \in Keys(call.config_update)
                                 THEN call.config_update[k] ELSE dflt[k]

C5_Witness ==
    /\ call.op = "complete_config" /\ call.is_ConfigUpdate
    /\ call.default_arg = None /\ call.cls = "STGCN_BIN_SA"
    /\ call.config_update = [n_agents |-> 2, input_feature |-> None]
    /\ call.ret[1].n_agents = 2 /\ call.ret[1].state_dim = 3

\* --- helpers of the claims: the shape conditions the claims speak of
IsForward(cls) == call.op = "forward" /\ call.cls = cls

BIN_SA_ShapesAgree ==
    LET t == call.data_in.trajectories
    IN  /\ t.shape[3] = model.config.n_agents
        /\ t.shape[4] = model.config.state_dim
        /\ call.data_in.actions.shape = <<t.shape[1]>>

RL_ShapesAgree ==
    LET u == call.data_in.unary_states
    IN  /\ u.shape[3] = model.config.n_agents
        /\ u.shape[4] = model.config.state_dim[2] + model.config.object_name_dim
        /\ call.data_in.nullary_states.shape =
             <<u.shape[1], u.shape[2], model.config.state_dim[1]>>
        /\ call.data_in.actions.shape = <<u.shape[1]>>

ShapesAgree ==
    IF call.cls = "STGCN_BIN_SA" THEN BIN_SA_ShapesAgree ELSE RL_ShapesAgree

BatchOf(d) ==
    IF "trajectories" \in Keys(d) THEN d.trajectories.shape[1] ELSE d.unary_states.shape[1]

\* hp asks for parameter estimation
WantsEstimate ==
    "estimate_parameters" \in Keys(call.hp) /\ call.hp.estimate_parameters = TRUE

\* ret is a structure with exactly output, target and loss as the claim has them
IsResult(ret) ==
    /\ Keys(ret) = {"output", "target", "loss"}
    /\ ret.output.shape = <<BatchOf(call.data_in), model.config.n_actions>>
    /\ ret.target = call.data_in.actions
    /\ ret.loss.shape = <<1>>
    /\ \A i \in Idx(ret.loss.shape) : ret.loss.val[i] = 0

\* C1: constructing STGCN_BIN_SA with an input_feature other than 'physical'
\* or None raises ValueError before stgcn and decoder are created, and no
\* model object results (the program never holds a model with such a config).
C1_InvalidInputFeatureRaises ==
    /\ (call.op = "__init__" /\ call.cls = "STGCN_BIN_SA"
          /\ call.config.input_feature \notin {None, Some("physical")})
         => /\ call.raised = "ValueError"
            /\ \A i \in 1..Len(call.attrs) : call.attrs[i] \notin {"stgcn", "decoder"}
            /\ call.self = NoModel
    /\ model.cls = "STGCN_BIN_SA"
         => model.config.input_feature \in {None, Some("physical")}

C1_Witness ==
    /\ call.op = "__init__" /\ call.cls = "STGCN_BIN_SA"
    /\ call.config.input_feature = Some("nlm")
    /\ call.raised = "ValueError"
    /\ model.cls = "STGCN_RL"

\* C2: set_grad with an option outside {'all', 'none', 'gfootball_finetune'}
\* raises ValueError and leaves every parameter's requires_grad as it was,
\* whatever set_grad calls preceded it.
C2_InvalidOptionChangesNothing ==
    [][(call'.op = "set_grad" /\ call'.option \notin GradOptions)
         => /\ call'.raised = "ValueError"
            /\ model'.requires_grad = model.requires_grad]_vars

C2_Witness ==
    /\ call.op = "set_grad" /\ call.option = "finetune"
    /\ call.raised = "ValueError"
    /\ last_option = Some("gfootball_finetune")
    /\ \E q \in Parameters(model) : model.requires_grad[q]
    /\ \E q \in Parameters(model) : ~model.requires_grad[q]

\* C3: in forward of both models an input whose shapes disagree with the
\* configuration or with each other (agent count, state/feature dimension,
\* actions not of shape (batch,), nullary states not of shape
\* (batch, length, state_dim[0])) fails with AssertionError and the backbone
\* is never invoked on it.
C3_ShapeMismatchAsserts ==
    (call.op = "forward" /\ ~ShapesAgree)
        => /\ call.raised = "AssertionError"
           /\ call.loc.stgcn_args = <<>>

\* C4 as claimed: for every input passing the shape assertions and every hp
\* holding 'beta', whatever else hp holds, forward of either model returns a
\* structure with exactly output (shape (batch, n_actions)), target (the
\* input actions) and loss (a one-element zero).  It is stated for the models
\* that have an input transform or need none (STGCN_RL, and STGCN_BIN_SA with
\* input_feature 'physical'), so that its failure does not rest on the
\* unbound binary_input of C8.
C4_ForwardAlwaysReturnsStructure ==
    (call.op = "forward" /\ ShapesAgree /\ "beta" \in Keys(call.hp)
       /\ (call.cls = "STGCN_BIN_SA" => model.config.input_feature = Some("physical")))
        => /\ call.raised = ""
           /\ call.ret /= None
           /\ IsResult(call.ret[1])

\* C4 as amended: for every input passing the shape assertions and every hp
\* holding 'beta', STGCN_RL.forward returns that structure; STGCN_BIN_SA.forward
\* returns it when hp['estimate_parameters'] is absent or false and the model
\* was built with input_feature 'physical'; with hp['estimate_parameters']
\* true STGCN_BIN_SA.forward returns no structure (None, or AttributeError
\* without an input transform), and a STGCN_BIN_SA built with input_feature
\* None raises UnboundLocalError instead of returning.
C4_ForwardReturnsStructureUnlessEstimating ==
    (call.op = "forward" /\ ShapesAgree /\ "beta" \in Keys(call.hp))
        => IF call.cls = "STGCN_BIN_SA" /\ WantsEstimate
           THEN /\ call.ret = None
                /\ call.raised = IF model.config.input_feature = None
                                 THEN "AttributeError" ELSE ""
           ELSE IF call.cls = "STGCN_BIN_SA" /\ model.config.input_feature = None
           THEN call.ret = None /\ call.raised = "UnboundLocalError"
           ELSE /\ call.raised = ""
                /\ call.ret /= None
                /\ IsResult(call.ret[1])

C4_Witness ==
    /\ IsForward("STGCN_BIN_SA") /\ ShapesAgree
    /\ call.hp = [beta |-> 1, estimate_parameters |-> FALSE]
    /\ "playerid" \in Keys(call.data_in)
    /\ BatchOf(call.data_in) = MaxBatch
    /\ call.ret /= None
    /\ call.ret[1].output.shape = <<MaxBatch, 9>>

\* C6: in STGCN_BIN_SA.forward reordering is decided once per batch: when
\* playerid is present and its maximum exceeds -0.5 the player is moved first
\* in every sample and the supplied types are replaced by a positional one-hot
\* over 4 classes with exactly one class per agent index k (0 -> 0, 1 -> 1,
\* 2 <= k <= n_agents // 2 -> 2, k > n_agents // 2 -> 3); when playerid is
\* absent or all its entries are negative, the trajectories and the supplied
\* types (their numbers, as floats) are passed on unchanged.
C6_ReorderOncePerBatch ==
    (IsForward("STGCN_BIN_SA") /\ call.loc.states /= None)
        => LET d == call.data_in
               traj == call.loc.trajectories[1]
               states == call.loc.states[1]
               types == call.loc.types[1]
               batch == traj.shape[1]
               n == traj.shape[3]
               present == "playerid" \in Keys(d)
               some == present /\ \E b \in 0..(batch - 1) : d.playerid.val[<<b>>] >= 0
               cls(k) == IF k = 0 THEN 0 ELSE IF k = 1 THEN 1
                         ELSE IF k <= n \div 2 THEN 2 ELSE 3
           IN  /\ call.loc.reordered = Some(some)
               /\ some =>
                    /\ states.shape = traj.shape
                    /\ \A i \in Idx(states.shape) :
                         (i[3] = 0 /\ d.playerid.val[<<i[1]>>] >= 0)
                           => states.val[i] =
                                traj.val[<<i[1], i[2], d.playerid.val[<<i[1]>>], i[4]>>]
                    /\ types.shape = <<batch, n, 4>>
                    /\ \A b \in 0..(batch - 1), k \in 0..(n - 1) :
                         /\ types.val[<<b, k, cls(k)>>] = 1
                         /\ Cardinality({c \in 0..3 : types.val[<<b, k, c>>] /= 0}) = 1
               /\ ~some =>
                    /\ states = traj
                    /\ types.shape = d.types.shape
                    /\ types.val = d.types.val

C6_Witness ==
    /\ IsForward("STGCN_BIN_SA") /\ call.loc.reordered = Some(TRUE)
    /\ model.config.n_agents = MaxAgents
    /\ BatchOf(call.data_in) = MaxBatch
    /\ call.data_in.playerid.val[<<0>>] = -1
    /\ call.data_in.playerid.val[<<1>>] = MaxAgents - 1
    /\ call.loc.types[1].val[<<0, 2, 2>>] = 1
    /\ call.loc.types[1].val[<<0, MaxAgents - 1, 3>>] = 1
    /\ call.loc.types[1] /= ToFloat(call.data_in.types)

\* C7: in STGCN_BIN_SA.forward noise touches only the first two state
\* channels: with config noise None the trajectories go on unchanged; with
\* noise set the standard deviation is the configured value on channels 0 and
\* 1 and exactly zero on every other channel, which keep their input values;
\* the caller's trajectories tensor in data is not modified in either case.
C7_NoiseOnFirstTwoChannels ==
    (IsForward("STGCN_BIN_SA") /\ call.loc.trajectories /= None)
        => LET t0 == call.data_in.trajectories
               t1 == call.loc.trajectories[1]
               noise == model.config.noise
           IN  /\ call.data.trajectories = t0
               /\ noise = None => (t1 = t0 /\ call.loc.noise_std = None)
               /\ noise /= None =>
                    /\ call.loc.noise_std /= None
                    /\ t1.shape = t0.shape
                    /\ \A i \in Idx(t0.shape) :
                         /\ call.loc.noise_std[1].val[i] = IF i[4] <= 1 THEN noise[1] ELSE 0
                         /\ i[4] >= 2 => t1.val[i] = t0.val[i]

C7_Witness ==
    /\ IsForward("STGCN_BIN_SA") /\ call.loc.trajectories /= None
    /\ model.config.noise = Some(NoiseStd)
    /\ model.config.state_dim = MaxStateDim
    /\ call.loc.trajectories[1].val[<<0, 0, 0, 0>>]
         /= call.data_in.trajectories.val[<<0, 0, 0, 0>>]
    /\ call.loc.trajectories[1].val[<<0, 0, 0, 2>>]
         = call.data_in.trajectories.val[<<0, 0, 0, 2>>]

\* C8: every input_feature the STGCN_BIN_SA constructor accepts ('physical'
\* and None) is handled by forward: on an input passing the shape assertions
\* forward reaches the backbone call with a defined binary-feature argument
\* and returns logits, and a forward with hp['estimate_parameters'] set
\* completes without error.
C8_AcceptedInputFeaturesHandled ==
    (IsForward("STGCN_BIN_SA") /\ ShapesAgree /\ "beta" \in Keys(call.hp))
        => /\ call.raised = ""
           /\ ~WantsEstimate
                => /\ Len(call.loc.stgcn_args) = 1
                   /\ call.ret /= None
                   /\ call.ret[1].output.shape =
                        <<BatchOf(call.data_in), model.config.n_actions>>

\* C9: after any sequence of set_grad calls (and reset_parameters calls) the
\* parameters with requires_grad true depend only on the last call with a
\* recognized option: 'all' -> every parameter, 'none' -> none,
\* 'gfootball_finetune' -> exactly the parameters of stgcn.st_gcn_layers[0].
C9_GradDependsOnLastOption ==
    (model.cls = "STGCN_BIN_SA" /\ last_option /= None)
        => {q \in Parameters(model) : model.requires_grad[q]} =
             (CASE last_option[1] = "all" -> Parameters(model)
                [] last_option[1] = "none" -> {}
                [] last_option[1] = "gfootball_finetune" ->
                     {q \in Parameters(model) :
                        q[1] = "stgcn" /\ q[2] = "st_gcn_layers" /\ q[3] = 0})

C9_Witness ==
    /\ model.cls = "STGCN_BIN_SA"
    /\ last_option = Some("gfootball_finetune")
    /\ call.op = "reset_parameters"
    /\ \E q \in Parameters(model) : model.requires_grad[q] /\ model.weights[q] = "init_weights"
    /\ \A q \in DecoderParameters : ~model.requires_grad[q]

\* C10: in STGCN_RL.forward the tensor handed to the backbone has
\* n_agents + 1 nodes and state_dim[0] + state_dim[1] + object_name_dim
\* channels, the dimensions the backbone was built with; node 0 carries the
\* nullary state in the first state_dim[0] channels and zeros after them, and
\* node k >= 1 carries zeros in the first state_dim[0] channels followed by
\* agent k-1's unary state unchanged.
C10_BackboneInputLayout ==
    (IsForward("STGCN_RL") /\ Len(call.loc.stgcn_args) = 1)
        => LET x == call.loc.stgcn_args[1].inputs
               cfg == model.config
               nul == call.data_in.nullary_states
               un == call.data_in.unary_states
               d0 == cfg.state_dim[1]
           IN  /\ x.shape = <<un.shape[1], un.shape[2], cfg.n_agents + 1,
                              d0 + cfg.state_dim[2] + cfg.object_name_dim>>
               /\ x.shape[3] = model.stgcn.n_nodes
               /\ x.shape[4] = model.stgcn.in_channels
               /\ \A i \in Idx(x.shape) :
                    x.val[i] =
                      IF i[3] = 0
                      THEN (IF i[4] < d0 THEN nul.val[<<i[1], i[2], i[4]>>] ELSE 0)
                      ELSE (IF i[4] < d0 THEN 0
                            ELSE un.val[<<i[1], i[2], i[3] - 1, i[4] - d0>>])

C10_Witness ==
    /\ IsForward("STGCN_RL") /\ Len(call.loc.stgcn_args) = 1
    /\ model.config.state_dim = <<1, 2>> /\ model.config.object_name_dim = 1
    /\ model.config.n_agents = MaxAgents - 2
    /\ call.loc.stgcn_args[1].inputs.shape = <<MaxBatch, MaxLen, MaxAgents - 1, 4>>
    /\ call.ret /= None
====
